---- MODULE Spec2Model ----
(***************************************************************************)
(* The AROMA core workflow, aroma_workflow of aroma/aroma.py, as a state   *)
(* machine.  One invocation is the record `run`: the arguments it was      *)
(* called with, its local variables, the process state it changes (the     *)
(* working directory, the output directory), the text it prints, the calls *)
(* it makes into utils / features / plotting, and the exception it ends    *)
(* with.  `twin` is a second invocation that is given the same arguments   *)
(* and reads the same environment, except for denType.                     *)
(*                                                                         *)
(* Paths are sequences of path segments; Python's None (and every other    *)
(* falsy path) is the empty sequence.  A TR is a set: {} is None, {n} is   *)
(* the number n.  What isfile / isdir / os.environ / the image header      *)
(* answer is an input of the step that asks.                               *)
(***************************************************************************)
EXTENDS Integers, Sequences, FiniteSets

VARIABLES run, twin

vars == <<run, twin>>

\* ------------------------------------------------------------------ bounds
\* Repetition times, as arguments and in image headers, range over 0..MaxTR.
MaxTR == 2

\* ------------------------------------------------------------------ values
None == <<>>

Truthy(p) == p /= None

\* op.join(p, s)
Join(p, s) == p \o s

NoTR == {}

\* Python's `not TR`: TR is None or TR is 0.
NotTR(t) == t = NoTR \/ t = {0}

\* The directory of aroma.py, and the directories the caller may be in.
scriptDir == <<"site-packages", "aroma">>

CallerDirs == {<<"work">>, scriptDir}

\* The value of an output of a call into utils or features: which function,
\* with which arguments, which output.
Result(fn, a, i) == [fn |-> fn, args |-> a, out |-> i]

NoValue == Result("", <<>>, 0)

Call(fn, a) == [fn |-> fn, args |-> a]

\* An exception: its type, its message, the path (or quantity) its message
\* names, and the path (or quantity) whose test failed.
Error(type, msg, names, failed) ==
    [type |-> type, msg |-> msg, names |-> names, failed |-> failed]

NoErr == Error("", "", None, None)

Raise(r, e) == [r EXCEPT !.pc = "failed", !.err = e]

\* print(s)
Emit(r, s) == [r EXCEPT !.out = Append(@, s)]

\* The values of denType: the four modes and one that is none of them.
DenTypeSeq == <<"nonaggr", "aggr", "both", "no", "bogus">>

DenTypes == { DenTypeSeq[i] : i \in 1..Len(DenTypeSeq) }

\* ----------------------------------------------------------- the arguments
\* The file arguments of the non-FEAT mode are given without inFeat; with
\* inFeat they are overwritten before they are read.
FileArgs ==
    { [inFeat |-> f, inFile |-> i, mc |-> m, affmat |-> a, warp |-> w] :
        f \in {None}, i \in {None, <<"func.nii.gz">>}, m \in {None, <<"mc.par">>},
        a \in {None, <<"func2highres.mat">>}, w \in {None, <<"warp.nii.gz">>} }
    \cup
    { [inFeat |-> <<"sub.feat">>, inFile |-> None, mc |-> None,
       affmat |-> None, warp |-> None] }

Arguments ==
    { [outDir |-> <<"out">>, inFeat |-> fa.inFeat, inFile |-> fa.inFile,
       mc |-> fa.mc, melDir |-> md, affmat |-> fa.affmat, warp |-> fa.warp,
       dim |-> 0, denType |-> dt, mask |-> mk, TR |-> tr, overwrite |-> ow,
       generate_plots |-> gp] :
        fa \in FileArgs, md \in {None, <<"melodic.ica">>}, dt \in DenTypes,
        mk \in {None, <<"mask.nii.gz">>},
        tr \in {NoTR} \cup { {n} : n \in 0..MaxTR },
        ow \in BOOLEAN, gp \in BOOLEAN }

\* The output directory: whether it exists and the files in it.
NoDir == [exists |-> FALSE, files |-> {}]

OldDir == [exists |-> TRUE, files |-> {"old_output"}]

\* The state of an invocation at the moment of the call.
Invocation(a, dir, od) ==
    [pc |-> "start", args |-> a,
     curdir |-> dir, outDirState |-> od, outDir0 |-> od,
     cwd |-> None,
     inFile |-> a.inFile, mc |-> a.mc, melDir |-> a.melDir,
     affmat |-> a.affmat, warp |-> a.warp, denType |-> a.denType, TR |-> a.TR,
     fslDir |-> None, in_img |-> NoTR,
     edgeFract |-> NoValue, csfFract |-> NoValue, maxRPcorr |-> NoValue,
     HFC |-> NoValue, motionICs |-> NoValue,
     calls |-> <<>>, out |-> <<>>, err |-> NoErr]

NoTwin == [pc |-> "none"]

\* -------------------------------------------------------------- the steps
\* Lines 32-38: remember the working directory, change to the script's.
DoChangeDir(r) ==
    Emit([r EXCEPT !.cwd = r.curdir, !.curdir = scriptDir, !.pc = "inputs"],
         "RUNNING ICA-AROMA")

\* Lines 42-72, the FEAT branch.  e: what isdir and isfile answer.
DoCheckFeat(r, e) ==
    LET inFeat == r.args.inFeat
        r1 == [r EXCEPT
                 !.inFile = Join(inFeat, <<"filtered_func_data.nii.gz">>),
                 !.mc = Join(inFeat, <<"mc", "prefiltered_func_data_mcf.par">>),
                 !.affmat = Join(inFeat, <<"reg", "example_func2highres.mat">>),
                 !.warp = Join(inFeat, <<"reg", "highres2standard_warp.nii.gz">>)]
    IN  IF ~e.isdir
        THEN Raise(r, Error("Exception",
                 "The specified FEAT directory does not exist.", inFeat, inFeat))
        ELSE IF ~e.inFile
        THEN Raise(r1, Error("Exception",
                 "Missing filtered_func_data.nii.gz in Feat directory.",
                 Join(inFeat, <<"filtered_func_data.nii.gz">>), r1.inFile))
        ELSE IF ~e.mc
        THEN Raise(r1, Error("Exception",
                 "Missing mc/prefiltered_func_data_mcf.mat in Feat directory.",
                 Join(inFeat, <<"mc", "prefiltered_func_data_mcf.mat">>), r1.mc))
        ELSE IF ~e.affmat
        THEN Raise(r1, Error("Exception",
                 "Missing reg/example_func2highres.mat in Feat directory.",
                 Join(inFeat, <<"reg", "example_func2highres.mat">>), r1.affmat))
        ELSE IF ~e.warp
        THEN Raise(r1, Error("Exception",
                 "Missing reg/highres2standard_warp.nii.gz in Feat directory.",
                 Join(inFeat, <<"reg", "highres2standard_warp.nii.gz">>), r1.warp))
        ELSE [r1 EXCEPT
                 !.melDir = IF e.ica THEN Join(inFeat, <<"filtered_func_data.ica">>)
                            ELSE @,
                 !.pc = "mask_check"]

\* Lines 73-89, the branch without a FEAT directory.  e: what isfile answers.
DoCheckFiles(r, e) ==
    LET r1 == IF ~Truthy(r.inFile) THEN Emit(r, "No input file specified.") ELSE r
        r2 == IF ~Truthy(r.mc) THEN Emit(r1, "No mc file specified.") ELSE r1
    IN  IF Truthy(r.inFile) /\ ~e.inFile
        THEN Raise(r, Error("Exception",
                 "The specified input file does not exist.", r.args.inFile, r.inFile))
        ELSE IF Truthy(r.mc) /\ ~e.mc
        THEN Raise(r1, Error("Exception",
                 "The specified mc file does does not exist.", r.args.mc, r.mc))
        ELSE IF Truthy(r.affmat) /\ ~e.affmat
        THEN Raise(r2, Error("Exception",
                 "The specified affmat file does not exist.", r.args.affmat, r.affmat))
        ELSE IF Truthy(r.warp) /\ ~e.warp
        THEN Raise(r2, Error("Exception",
                 "The specified warp file does not exist.", r.args.warp, r.warp))
        ELSE [r2 EXCEPT !.pc = "mask_check"]

\* Lines 91-93.  e: what isfile(mask) answers.
DoCheckMask(r, e) ==
    IF Truthy(r.args.mask) /\ ~e
    THEN Raise(r, Error("Exception",
             "The specified mask does not exist.", r.args.mask, r.args.mask))
    ELSE [r EXCEPT !.pc = "denType"]

\* DoCheckDenType, had it printed its message without setting the default.
DoCheckDenType_KeepsDenType(r) ==
    IF r.denType \notin {"nonaggr", "aggr", "both", "no"}
    THEN [Emit(r, "Type of denoising was not correctly specified.")
            EXCEPT !.pc = "fslDir"]
    ELSE [r EXCEPT !.pc = "fslDir"]

\* DoCheckDenType, had it rejected a denType it does not know.
DoCheckDenType_Raises(r) ==
    IF r.denType \notin {"nonaggr", "aggr", "both", "no"}
    THEN Raise(r, Error("Exception",
             "Type of denoising was not correctly specified.", <<"denType">>,
             <<"denType">>))
    ELSE [r EXCEPT !.pc = "fslDir"]

\* Lines 95-101.
DoCheckDenType(r) ==
    IF r.denType \notin {"nonaggr", "aggr", "both", "no"}
    THEN [Emit(r, "Type of denoising was not correctly specified.")
            EXCEPT !.denType = "nonaggr", !.pc = "fslDir"]
    ELSE [r EXCEPT !.pc = "fslDir"]

\* Line 106.  e: whether FSLDIR is in os.environ.
DoDefineFslDir(r, e) ==
    IF e
    THEN [r EXCEPT !.fslDir = <<"fsl", "bin", "">>, !.pc = "outDir"]
    ELSE Raise(r, Error("KeyError", "FSLDIR", <<"FSLDIR">>, <<"FSLDIR">>))

\* DoPrepareOutDir, had it overwritten an existing directory without
\* looking at overwrite.
DoPrepareOutDir_AlwaysOverwrites(r) ==
    IF r.outDirState.exists
    THEN [Emit(r, "Warning! Output directory exists and will be overwritten.")
            EXCEPT !.outDirState = [exists |-> TRUE, files |-> {}], !.pc = "getTR"]
    ELSE [r EXCEPT !.outDirState = [exists |-> TRUE, files |-> {}], !.pc = "getTR"]

\* Lines 108-127.
DoPrepareOutDir(r) ==
    IF r.outDirState.exists /\ ~r.args.overwrite
    THEN [Emit(r, "Output directory already exists. AROMA will not continue.")
            EXCEPT !.pc = "returned"]
    ELSE IF r.outDirState.exists /\ r.args.overwrite
    THEN [Emit(r, "Warning! Output directory exists and will be overwritten.")
            EXCEPT !.outDirState = [exists |-> TRUE, files |-> {}], !.pc = "getTR"]
    ELSE [r EXCEPT !.outDirState = [exists |-> TRUE, files |-> {}], !.pc = "getTR"]

\* Lines 129-132.  h: the fourth zoom of the image header.
DoGetTR(r, h) ==
    IF NotTR(r.TR)
    THEN IF r.inFile = None
         THEN Raise(r, Error("TypeError", "nib.load(None)", <<"inFile">>, <<"inFile">>))
         ELSE [r EXCEPT !.in_img = {h}, !.TR = {h}, !.pc = "checkTR"]
    ELSE [r EXCEPT !.pc = "checkTR"]

\* DoCheckTR, had it only warned about a TR of zero.
DoCheckTR_ZeroOnlyWarns(r) ==
    IF r.TR = {1} \/ r.TR = {0}
    THEN [Emit(r, "Warning! Please check whether the determined TR is correct!")
            EXCEPT !.pc = "mask"]
    ELSE [r EXCEPT !.pc = "mask"]

\* DoCheckTR, had it printed the TR message and returned instead of raising.
DoCheckTR_ZeroReturns(r) ==
    IF r.TR = {1}
    THEN [Emit(r, "Warning! Please check whether the determined TR is correct!")
            EXCEPT !.pc = "mask"]
    ELSE IF r.TR = {0}
    THEN [Emit(r, "TR is zero.") EXCEPT !.pc = "returned"]
    ELSE [r EXCEPT !.pc = "mask"]

\* DoCheckTR, had it treated a TR of one as fatal as well.
DoCheckTR_OneIsFatal(r) ==
    IF r.TR = {1} \/ r.TR = {0}
    THEN Raise(r, Error("Exception", "TR is zero.", <<"TR">>, <<"TR">>))
    ELSE [r EXCEPT !.pc = "mask"]

\* Lines 134-147.
DoCheckTR(r) ==
    IF r.TR = {1}
    THEN [Emit(r, "Warning! Please check whether the determined TR is correct!")
            EXCEPT !.pc = "mask"]
    ELSE IF r.TR = {0}
    THEN Raise(r, Error("Exception", "TR is zero.", <<"TR">>, <<"TR">>))
    ELSE [r EXCEPT !.pc = "mask"]

\* Line 151.
new_mask(r) == Join(r.args.outDir, <<"mask.nii.gz">>)

\* Lines 184-185, 192, 196.
melIC(r) == Join(r.args.outDir, <<"melodic_IC_thr.nii.gz">>)

melIC_MNI(r) == Join(r.args.outDir, <<"melodic_IC_thr_MNI2mm.nii.gz">>)

melmix(r) == Join(r.args.outDir, <<"melodic.ica", "melodic_mix">>)

melFTmix(r) == Join(r.args.outDir, <<"melodic.ica", "melodic_FTmix">>)

\* A call into utils, features, plotting, shutil or os.system.
Invoke(r, fn, a) == [r EXCEPT !.calls = Append(@, Call(fn, a))]

\* A file written into the output directory.
WriteOut(r, fs) == [r EXCEPT !.outDirState.files = @ \cup fs]

\* Lines 149-176.  e: whether example_func.nii.gz is a file of the FEAT
\* directory.
DoCreateMask(r, e) ==
    LET inFeat == r.args.inFeat
        made ==
          IF Truthy(r.args.mask)
          THEN Invoke(r, "shutil.copyfile", <<r.args.mask, new_mask(r)>>)
          ELSE IF Truthy(inFeat) /\ e
          THEN Invoke(r, "os.system",
                      <<Join(r.fslDir, <<"bet">>),
                        Join(inFeat, <<"example_func.nii.gz">>),
                        Join(r.args.outDir, <<"bet">>)>>)
          ELSE Invoke(IF Truthy(inFeat)
                      THEN Emit(r, "No example_func was found in the Feat directory.")
                      ELSE r,
                      "os.system",
                      <<Join(r.fslDir, <<"fslmaths">>), r.inFile, new_mask(r)>>)
    IN  [WriteOut(made, {"mask.nii.gz"}) EXCEPT !.pc = "runICA"]

\* Lines 178-180.
DoRunICA(r) ==
    [Invoke(Emit(r, "Step 1) MELODIC"), "runICA",
            <<r.fslDir, r.inFile, r.args.outDir, r.melDir, new_mask(r),
              r.args.dim, r.TR>>)
       EXCEPT !.pc = "register2MNI"]

\* Lines 182-186.
DoRegister2MNI(r) ==
    [Invoke(Emit(r, "Step 2) Automatic classification of the components"),
            "register2MNI",
            <<r.fslDir, melIC(r), melIC_MNI(r), r.affmat, r.warp>>)
       EXCEPT !.pc = "feature_spatial"]

\* DoFeatureSpatial, had it unpacked the two fractions the other way round.
DoFeatureSpatial_Swapped(r) ==
    LET a == <<melIC_MNI(r)>>
    IN  [Invoke(r, "feature_spatial", a)
           EXCEPT !.csfFract = Result("feature_spatial", a, 1),
                  !.edgeFract = Result("feature_spatial", a, 2),
                  !.pc = "feature_time_series"]

\* Lines 188-189.
DoFeatureSpatial(r) ==
    LET a == <<melIC_MNI(r)>>
    IN  [Invoke(r, "feature_spatial", a)
           EXCEPT !.edgeFract = Result("feature_spatial", a, 1),
                  !.csfFract = Result("feature_spatial", a, 2),
                  !.pc = "feature_time_series"]

\* Lines 191-193.
DoFeatureTimeSeries(r) ==
    LET a == <<melmix(r), r.mc>>
    IN  [Invoke(r, "feature_time_series", a)
           EXCEPT !.maxRPcorr = Result("feature_time_series", a, 1),
                  !.pc = "feature_frequency"]

\* Lines 195-197.
DoFeatureFrequency(r) ==
    LET a == <<melFTmix(r), r.TR>>
    IN  [Invoke(r, "feature_frequency", a)
           EXCEPT !.HFC = Result("feature_frequency", a, 1),
                  !.pc = "classification"]

\* Lines 199-200.
DoClassification(r) ==
    LET a == <<r.args.outDir, r.maxRPcorr, r.edgeFract, r.HFC, r.csfFract>>
    IN  [Invoke(r, "classification", a)
           EXCEPT !.motionICs = Result("classification", a, 1),
                  !.pc = "plots"]

\* Lines 202-207.
DoPlots(r) ==
    IF r.args.generate_plots
    THEN [Invoke(r, "classification_plot",
                 <<Join(r.args.outDir, <<"classification_overview.txt">>),
                   r.args.outDir>>)
            EXCEPT !.pc = "denoising"]
    ELSE [r EXCEPT !.pc = "denoising"]

\* The cleaned volumes utils.denoising writes for a mode.
CleanedVolumes(denType) ==
    CASE denType = "nonaggr" -> {"denoised_func_data_nonaggr.nii.gz"}
      [] denType = "aggr" -> {"denoised_func_data_aggr.nii.gz"}
      [] denType = "both" -> {"denoised_func_data_nonaggr.nii.gz",
                              "denoised_func_data_aggr.nii.gz"}
      [] OTHER -> {}

AllCleanedVolumes == CleanedVolumes("both")

\* Lines 209-211.
DoDenoising(r) ==
    IF r.denType /= "no"
    THEN [WriteOut(Invoke(Emit(r, "Step 3) Data denoising"), "denoising",
                          <<r.fslDir, r.inFile, r.args.outDir, melmix(r),
                            r.denType, r.motionICs>>),
                   CleanedVolumes(r.denType))
            EXCEPT !.pc = "revert"]
    ELSE [r EXCEPT !.pc = "revert"]

\* Lines 213-216.
DoRevertDir(r) ==
    Emit([r EXCEPT !.curdir = r.cwd, !.pc = "done"], "Finished")

\* ------------------------------------------------------------ one invocation
Init ==
    /\ \E a \in Arguments, dir \in CallerDirs, od \in {NoDir, OldDir} :
          run = Invocation(a, dir, od)
    /\ twin = NoTwin

FeatEnv ==
    [isdir : BOOLEAN, inFile : BOOLEAN, mc : BOOLEAN, affmat : BOOLEAN,
     warp : BOOLEAN, ica : BOOLEAN]

FilesEnv == [inFile : BOOLEAN, mc : BOOLEAN, affmat : BOOLEAN, warp : BOOLEAN]

ChangeDir ==
    /\ run.pc = "start"
    /\ run' = DoChangeDir(run)
    /\ twin' = IF twin.pc = run.pc THEN DoChangeDir(twin) ELSE twin

CheckFeat ==
    /\ run.pc = "inputs" /\ Truthy(run.args.inFeat)
    /\ \E e \in FeatEnv :
          /\ run' = DoCheckFeat(run, e)
          /\ twin' = IF twin.pc = run.pc THEN DoCheckFeat(twin, e) ELSE twin

CheckFiles ==
    /\ run.pc = "inputs" /\ ~Truthy(run.args.inFeat)
    /\ \E e \in FilesEnv :
          /\ run' = DoCheckFiles(run, e)
          /\ twin' = IF twin.pc = run.pc THEN DoCheckFiles(twin, e) ELSE twin

CheckMask ==
    /\ run.pc = "mask_check"
    /\ \E e \in BOOLEAN :
          /\ run' = DoCheckMask(run, e)
          /\ twin' = IF twin.pc = run.pc THEN DoCheckMask(twin, e) ELSE twin

CheckDenType ==
    /\ run.pc = "denType"
    /\ run' = DoCheckDenType(run)
    /\ twin' = IF twin.pc = run.pc THEN DoCheckDenType(twin) ELSE twin

DefineFslDir ==
    /\ run.pc = "fslDir"
    /\ \E e \in BOOLEAN :
          /\ run' = DoDefineFslDir(run, e)
          /\ twin' = IF twin.pc = run.pc THEN DoDefineFslDir(twin, e) ELSE twin

PrepareOutDir ==
    /\ run.pc = "outDir"
    /\ run' = DoPrepareOutDir(run)
    /\ twin' = IF twin.pc = run.pc THEN DoPrepareOutDir(twin) ELSE twin

GetTR ==
    /\ run.pc = "getTR"
    /\ \E h \in 0..MaxTR :
          /\ run' = DoGetTR(run, h)
          /\ twin' = IF twin.pc = run.pc THEN DoGetTR(twin, h) ELSE twin

CheckTR ==
    /\ run.pc = "checkTR"
    /\ run' = DoCheckTR(run)
    /\ twin' = IF twin.pc = run.pc THEN DoCheckTR(twin) ELSE twin

CreateMask ==
    /\ run.pc = "mask"
    /\ \E e \in BOOLEAN :
          /\ run' = DoCreateMask(run, e)
          /\ twin' = IF twin.pc = run.pc THEN DoCreateMask(twin, e) ELSE twin

RunICA ==
    /\ run.pc = "runICA"
    /\ run' = DoRunICA(run)
    /\ twin' = IF twin.pc = run.pc THEN DoRunICA(twin) ELSE twin

Register2MNI ==
    /\ run.pc = "register2MNI"
    /\ run' = DoRegister2MNI(run)
    /\ twin' = IF twin.pc = run.pc THEN DoRegister2MNI(twin) ELSE twin

FeatureSpatial ==
    /\ run.pc = "feature_spatial"
    /\ run' = DoFeatureSpatial(run)
    /\ twin' = IF twin.pc = run.pc THEN DoFeatureSpatial(twin) ELSE twin

FeatureTimeSeries ==
    /\ run.pc = "feature_time_series"
    /\ run' = DoFeatureTimeSeries(run)
    /\ twin' = IF twin.pc = run.pc THEN DoFeatureTimeSeries(twin) ELSE twin

FeatureFrequency ==
    /\ run.pc = "feature_frequency"
    /\ run' = DoFeatureFrequency(run)
    /\ twin' = IF twin.pc = run.pc THEN DoFeatureFrequency(twin) ELSE twin

Classification ==
    /\ run.pc = "classification"
    /\ run' = DoClassification(run)
    /\ twin' = IF twin.pc = run.pc THEN DoClassification(twin) ELSE twin

Plots ==
    /\ run.pc = "plots"
    /\ run' = DoPlots(run)
    /\ twin' = IF twin.pc = run.pc THEN DoPlots(twin) ELSE twin

Denoising ==
    /\ run.pc = "denoising"
    /\ run' = DoDenoising(run)
    /\ twin' = IF twin.pc = run.pc THEN DoDenoising(twin) ELSE twin

RevertDir ==
    /\ run.pc = "revert"
    /\ run' = DoRevertDir(run)
    /\ twin' = IF twin.pc = run.pc THEN DoRevertDir(twin) ELSE twin

Next ==
    \/ ChangeDir \/ CheckFeat \/ CheckFiles \/ CheckMask \/ CheckDenType
    \/ DefineFslDir \/ PrepareOutDir \/ GetTR \/ CheckTR \/ CreateMask
    \/ RunICA \/ Register2MNI \/ FeatureSpatial \/ FeatureTimeSeries
    \/ FeatureFrequency \/ Classification \/ Plots \/ Denoising \/ RevertDir

Spec == Init /\ [][Next]_vars

\* ---------------------------------------------------------- two invocations
\* Two invocations with the same arguments, in the same environment, except
\* for denType.  They read the same answers from the file system.  Each
\* unordered pair of values of denType is taken once.
PairInit ==
    \E a \in Arguments, dir \in CallerDirs, od \in {NoDir, OldDir},
       i, j \in 1..Len(DenTypeSeq) :
          /\ i < j
          /\ a.denType = DenTypeSeq[i]
          /\ run = Invocation(a, dir, od)
          /\ twin = Invocation([a EXCEPT !.denType = DenTypeSeq[j]], dir, od)

PairSpec == PairInit /\ [][Next]_vars

\* ------------------------------------------------------------- vocabulary
Ended(r) == r.pc \in {"done", "returned", "failed"}

ReturnedNormally(r) == r.pc \in {"done", "returned"}

Count(r, fn) == Len(SelectSeq(r.calls, LAMBDA c : c.fn = fn))

Called(r, fn) == Count(r, fn) > 0

\* The position of the first call of fn, 0 when there is none.
Pos(r, fn) ==
    IF Called(r, fn)
    THEN CHOOSE i \in 1..Len(r.calls) :
            /\ r.calls[i].fn = fn
            /\ \A j \in 1..(i - 1) : r.calls[j].fn /= fn
    ELSE 0

AnalysisSteps ==
    {"feature_spatial", "feature_time_series", "feature_frequency",
     "classification", "denoising"}

Stages ==
    <<"runICA", "register2MNI", "feature_spatial", "feature_time_series",
      "feature_frequency", "classification">>

\* The mode asked for, as the claims define the effective mode.
EffectiveMode(a) ==
    IF a.denType \in {"nonaggr", "aggr", "both", "no"} THEN a.denType ELSE "nonaggr"

AllStagesRun(r) ==
    /\ \A k \in 1..Len(Stages) : Count(r, Stages[k]) = 1
    /\ \A k \in 1..(Len(Stages) - 1) : Pos(r, Stages[k]) < Pos(r, Stages[k + 1])
    /\ Count(r, "denoising") = (IF EffectiveMode(r.args) = "no" THEN 0 ELSE 1)
    /\ Called(r, "denoising") => Pos(r, "classification") < Pos(r, "denoising")

TRErrorRaised(r) == r.pc = "failed" /\ r.err.msg = "TR is zero."

\* The program counters after the TR check has let the run pass.
PastTRCheck ==
    {"mask", "runICA", "register2MNI", "feature_spatial", "feature_time_series",
     "feature_frequency", "classification", "plots", "denoising", "revert", "done"}

TRWarned(r) ==
    \E i \in 1..Len(r.out) :
        r.out[i] = "Warning! Please check whether the determined TR is correct!"

\* -------------------------------------------------------------------- C1
\* C1, as stated: an invocation in which the repetition time is zero (the TR
\* argument is 0, or TR is not given and the header's TR is 0) raises the
\* fatal TR error, so it never gets past the TR check, and it has called
\* none of the feature extractors, the classification or the denoising.
TRZeroAsClaimed(r) ==
    \/ r.args.TR = {0}
    \/ r.args.TR = NoTR /\ r.in_img = {0}

EffectiveTRZero(r) == NotTR(r.args.TR) /\ r.in_img = {0}

C2_FatalErrorNamesPrecondition ==
    (run.pc = "failed" /\ run.err.type = "Exception") =>
        /\ ~Called(run, "denoising")
        /\ run.err.names = run.err.failed
        /\ run.outDirState.files \cap AllCleanedVolumes = {}

\* -------------------------------------------------------------------- C3
\* C3, as stated: an invocation that returns normally has run all stages.
C3_ReturnsOnlyAfterAllStages ==
    ReturnedNormally(run) => AllStagesRun(run)

\* C3, amended: an invocation ends in exactly one of three ways: it completes
\* all stages; it raises an error; or, when the output directory exists and
\* overwrite is false, it returns without having run any stage.  Nothing else
\* returns normally.
C3_CompletesFailsOrDeclines ==
    /\ run.pc = "done" => AllStagesRun(run) /\ run.err = NoErr
    /\ run.pc = "failed" => run.err /= NoErr
    /\ run.pc = "returned" =>
          /\ run.outDir0.exists /\ ~run.args.overwrite
          /\ run.calls = <<>> /\ run.err = NoErr

C3_Witness ==
    /\ run.pc = "returned"
    /\ run.outDir0.exists /\ ~run.args.overwrite

\* -------------------------------------------------------------------- C4
\* C4: once the denoising decision is made, utils.denoising has been called
\* exactly once, with the effective mode, when that mode is nonaggr, aggr or
\* both, and not at all (and no cleaned volume is written) when it is no;
\* the effective mode is denType when it is one of the four, else nonaggr.
\* Before the decision it has not been called.
C4_DenoisingMatchesMode ==
    LET eff == EffectiveMode(run.args)
    IN  IF run.pc \in {"revert", "done"}
        THEN IF eff = "no"
             THEN /\ Count(run, "denoising") = 0
                  /\ run.outDirState.files \cap AllCleanedVolumes = {}
             ELSE /\ Count(run, "denoising") = 1
                  /\ run.calls[Pos(run, "denoising")].args[5] = eff
        ELSE Count(run, "denoising") = 0

C4_Witness ==
    /\ run.pc = "done"
    /\ run.args.denType = "bogus"
    /\ Called(run, "denoising")
    /\ run.calls[Pos(run, "denoising")].args[5] = "nonaggr"

\* -------------------------------------------------------------------- C5
\* C5: two invocations that differ only in denType are at the same step at
\* every moment, have made the same calls with the same arguments apart from
\* the denoising, and hold the same set of motion components.
BeforeDenoising(r) == SelectSeq(r.calls, LAMBDA c : c.fn /= "denoising")

C5_DenTypeDoesNotReachClassification ==
    /\ run.pc = twin.pc
    /\ BeforeDenoising(run) = BeforeDenoising(twin)
    /\ run.motionICs = twin.motionICs

C5_Witness ==
    /\ run.pc = "done" /\ twin.pc = "done"
    /\ run.args.denType /= twin.args.denType
    /\ Called(run, "classification") /\ run.motionICs /= NoValue
    /\ Called(run, "denoising") /\ ~Called(twin, "denoising")

\* -------------------------------------------------------------------- C6
\* C6: with a repetition time of 1 the TR check prints its warning and lets
\* the run go on to the mask and the pipeline, without an error; a run with
\* TR 1 ends like one with any other non-zero TR, with all stages run.
C6_TROneWarnsAndContinues ==
    /\ [][ (run.pc = "checkTR" /\ run.TR = {1}) =>
              (run'.pc = "mask" /\ TRWarned(run') /\ run'.err = NoErr) ]_vars
    /\ [](run.TR = {1} => ~TRErrorRaised(run))
    /\ []((run.TR = {1} /\ run.pc \in PastTRCheck) => TRWarned(run))
    /\ []((run.TR = {1} /\ run.pc = "done") => AllStagesRun(run))

C6_Witness ==
    /\ run.pc = "done"
    /\ run.TR = {1} /\ run.in_img = {1}
    /\ TRWarned(run) /\ AllStagesRun(run)

\* -------------------------------------------------------------------- C7
\* C7: no step is called twice; classification is called after runICA,
\* register2MNI, feature_spatial, feature_time_series and feature_frequency,
\* in that order, with the outputs of those three feature calls; denoising
\* is called after classification, with the motion components it returned.
OutputOf(r, fn, i) == Result(fn, r.calls[Pos(r, fn)].args, i)

C7_StepOrder ==
    /\ \A i, j \in 1..Len(run.calls) : i /= j => run.calls[i].fn /= run.calls[j].fn
    /\ Called(run, "classification") =>
          /\ \A k \in 1..(Len(Stages) - 1) :
                0 < Pos(run, Stages[k]) /\ Pos(run, Stages[k]) < Pos(run, Stages[k + 1])
          /\ LET a == run.calls[Pos(run, "classification")].args
             IN  /\ a[2] = OutputOf(run, "feature_time_series", 1)
                 /\ a[3] = OutputOf(run, "feature_spatial", 1)
                 /\ a[4] = OutputOf(run, "feature_frequency", 1)
                 /\ a[5] = OutputOf(run, "feature_spatial", 2)
    /\ Called(run, "denoising") =>
          /\ 0 < Pos(run, "classification")
          /\ Pos(run, "classification") < Pos(run, "denoising")
          /\ run.calls[Pos(run, "denoising")].args[6] = OutputOf(run, "classification", 1)

C7_Witness ==
    /\ run.pc = "done"
    /\ Called(run, "classification") /\ Called(run, "denoising")

\* -------------------------------------------------------------------- C8
\* C8: when the output directory exists and overwrite is false, the
\* directory and its files stay as they were and no step is run; a directory
\* that existed is only ever changed with overwrite true, and then the run
\* that gets past that point has emptied it.
C8_ExistingOutputProtected ==
    /\ (run.outDir0.exists /\ ~run.args.overwrite) =>
          /\ run.outDirState = run.outDir0
          /\ run.calls = <<>>
    /\ (run.outDir0.exists /\ run.outDirState /= run.outDir0) => run.args.overwrite
    /\ (run.outDir0.exists /\ run.args.overwrite /\ run.pc \in PastTRCheck) =>
          "old_output" \notin run.outDirState.files

C8_Witness ==
    /\ run.pc = "returned"
    /\ run.outDir0 = OldDir /\ run.outDirState = OldDir
    /\ ~run.args.overwrite

\* -------------------------------------------------------------------- C9
\* C9: however the invocation ends (completion, the early return, an
\* error), the working directory is the one it was called in.
C9_WorkingDirectoryRestored ==
    Ended(run) => run.curdir = run.cwd

\* ------------------------------------------------------------------- C10
\* C10: without a FEAT directory, when the input file or the mc file is not
\* given (or is given and does not exist) the workflow aborts with an error
\* before the output directory is made or removed and before any step runs.
C10_RequiredInputsValidatedFirst ==
    (~Truthy(run.args.inFeat) /\ (run.args.inFile = None \/ run.args.mc = None)) =>
        /\ run.outDirState = run.outDir0
        /\ run.calls = <<>>
        /\ Ended(run) => run.pc = "failed"

====
